---- MODULE Spec2Model ----
(***************************************************************************)
(* quickNAT_pytorch, utils/data_utils.py and utils/log_utils.py.           *)
(*                                                                         *)
(* Three state machines share this module:                                 *)
(*   SpecBuild  the corpus builder: load_and_preprocess, _convertToHd5     *)
(*              and the __main__ block of data_utils.py;                   *)
(*   SpecData   get_data and ImdbData of data_utils.py;                    *)
(*   SpecLog    the confusion-matrix and Dice accumulators of LogWriter.   *)
(*                                                                         *)
(* A numpy array is a record [shape, val]: shape is the tuple of its       *)
(* dimensions and val the nested sequences of its elements (val[i][j][k]   *)
(* for rank 3), so an array of zero slices keeps its (0, H, W) shape.      *)
(***************************************************************************)
EXTENDS Integers, Sequences, FiniteSets, TLC

VARIABLES
    \* ---- builder (data_utils.py, load_and_preprocess .. __main__)
    pc,              \* position in the builder
    args,            \* the arguments of the entry point
    split,           \* "train" / "test": which _convertToHd5 call is running
    volumes_to_use,  \* the lines of the volume-list file (line 60)
    idx,             \* the loop index of `for file_path in file_paths`
    volume,          \* the loop's `volume`
    labelmap,        \* the loop's `labelmap`
    lists,           \* volume_list, labelmap_list, class_weights_list, weights_list
    corpus,          \* what _convertToHd5 returned, per split
    io,              \* every file operation performed so far, in order
    steps,           \* the preprocessing steps run on the current volume, in order
    handles,         \* the h5py handles of the `with` statement (lines 158-164)
    err,             \* the exception that ended the run, or "none"
    \* ---- get_data / ImdbData
    dpc, files, dhandles, imdb, got, derr,
    \* ---- LogWriter
    cm, ds, plotted, since, last, iters

bvars == <<pc, args, split, volumes_to_use, idx, volume, labelmap, lists, corpus,
           io, steps, handles, err>>
dvars == <<dpc, files, dhandles, imdb, got, derr>>
lvars == <<cm, ds, plotted, since, last, iters>>
vars == <<bvars, dvars, lvars>>

\* Python's None, where a string is expected; an optional array or record is a
\* sequence of length 0 or 1
None == "None"

\* ---- bounds of the model
MaxVols == 2
MaxTestVols == 1
MaxIter == 3
MaxN == 2

NumClass == 3

(***************************************************************************)
(* numpy arrays                                                            *)
(***************************************************************************)
Arr(shape, val) == [shape |-> shape, val |-> val]

RECURSIVE SumSeq(_)
SumSeq(s) == IF s = <<>> THEN 0 ELSE Head(s) + SumSeq(Tail(s))

RECURSIVE Flat(_)
\* s is a sequence of sequences: their concatenation in order
Flat(s) == IF s = <<>> THEN <<>> ELSE Head(s) \o Flat(Tail(s))

\* the values of a rank-3 array, as a set
Values3(a) ==
    {a.val[i][j][k] : <<i, j, k>> \in
        (1..a.shape[1]) \X (1..a.shape[2]) \X (1..a.shape[3])}

\* ndarray.transpose(perm) of a rank-3 array; perm is 1-based here:
\* axis m of the result is axis perm[m] of the input
Transpose3(a, perm) ==
    LET inv == [ax \in 1..3 |-> CHOOSE m \in 1..3 : perm[m] = ax]
        sh  == [m \in 1..3 |-> a.shape[perm[m]]]
    IN Arr(sh,
           [i \in 1..sh[1] |-> [j \in 1..sh[2] |-> [k \in 1..sh[3] |->
               LET o == <<i, j, k>>
               IN a.val[o[inv[1]]][o[inv[2]]][o[inv[3]]]]]])

\* a[idxs] along axis 0: the slices at the given positions, in that order
TakeSlices(a, idxs) ==
    Arr(<<Len(idxs)>> \o Tail(a.shape), [m \in 1..Len(idxs) |-> a.val[idxs[m]]])

\* elementwise map over a rank-3 array; F is a function on the array's values
Map3(a, F) ==
    Arr(a.shape, [i \in 1..a.shape[1] |-> [j \in 1..a.shape[2] |->
                     [k \in 1..a.shape[3] |-> F[a.val[i][j][k]]]]])

(***************************************************************************)
(* preprocessor: the transforms load_and_preprocess calls                  *)
(***************************************************************************)
OrientationTokens == {"COR", "AXI", "SAG"}
RemapTokens == {"FS", "Neo"}

\* the lookup tables, raw label ID -> canonical class ID in 0..NumClass-1
RemapTable(remap_config) ==
    IF remap_config = "FS" THEN (2 :> 1) @@ (41 :> 2)
    ELSE (2 :> 1) @@ (41 :> 1)

OrientationPerm(orientation) ==
    CASE orientation = "COR" -> <<3, 1, 2>>
      [] orientation = "AXI" -> <<2, 3, 1>>
      [] OTHER               -> <<1, 2, 3>>

\* rotate_orientation(volume, labelmap, orientation), for a known token
rotate_orientation(v, l, orientation) ==
    <<Transpose3(v, OrientationPerm(orientation)),
      Transpose3(l, OrientationPerm(orientation))>>

\* slice i of labelmap l holds at least one non-background label
Foreground(l, i) ==
    \E j \in 1..l.shape[2], k \in 1..l.shape[3] : l.val[i][j][k] # 0

ForegroundIdx(l) == {i \in 1..l.shape[1] : Foreground(l, i)}

RECURSIVE Ascending(_)
\* the elements of a finite set of integers, in increasing order
Ascending(S) ==
    IF S = {} THEN <<>>
    ELSE LET m == CHOOSE x \in S : \A y \in S : x <= y
         IN <<m>> \o Ascending(S \ {m})

\* reduce_slices(volume, labelmap): the contiguous block from the first to the
\* last slice that holds a foreground label
reduce_slices(v, l) ==
    LET fg   == ForegroundIdx(l)
        keep == IF fg = {} THEN <<>>
                ELSE LET lo == CHOOSE x \in fg : \A y \in fg : x <= y
                         hi == CHOOSE x \in fg : \A y \in fg : x >= y
                     IN [m \in 1..(hi - lo + 1) |-> lo + m - 1]
    IN <<TakeSlices(v, keep), TakeSlices(l, keep)>>

RemapOne(table, x) == IF x \in DOMAIN table THEN table[x] ELSE 0

\* remap_labels(labelmap, remap_config), for a known token
remap_labels(l, remap_config) ==
    LET table == RemapTable(remap_config)
    IN Map3(l, [x \in Values3(l) |-> RemapOne(table, x)])

\* remove_black(volume, labelmap): every slice whose labelmap slice is not all
\* background, in order
remove_black(v, l) ==
    LET keep == Ascending(ForegroundIdx(l))
    IN <<TakeSlices(v, keep), TakeSlices(l, keep)>>

Count(l, label) ==
    Cardinality({p \in (1..l.shape[1]) \X (1..l.shape[2]) \X (1..l.shape[3]) :
                    l.val[p[1]][p[2]][p[3]] = label})

RECURSIVE SortedCounts(_, _)
\* the pixel counts of the labels in S, in increasing order
SortedCounts(l, S) ==
    IF S = {} THEN <<>>
    ELSE LET m == CHOOSE x \in S : \A y \in S : Count(l, x) <= Count(l, y)
         IN <<Count(l, m)>> \o SortedCounts(l, S \ {m})

\* twice the median of a sorted sequence of integers (0 for the empty one)
Median2(s) ==
    LET n == Len(s)
    IN IF n = 0 THEN 0
       ELSE IF n % 2 = 1 THEN 2 * s[(n + 1) \div 2]
       ELSE s[n \div 2] + s[n \div 2 + 1]

\* a quotient num/den, kept as the pair
Frac(num, den) == [num |-> num, den |-> den]

\* median-frequency balancing: weight of a label = median(frequencies of the
\* labels present) / frequency(label), 0 for a label that is absent
ClassWeight(l, label) ==
    LET present == Values3(l)
        cnt     == Count(l, label)
    IN IF cnt = 0 THEN Frac(0, 1)
       ELSE Frac(Median2(SortedCounts(l, present)), 2 * cnt)

\* estimate_weights_mfb(labelmap): <<per-pixel weight map (the labelmap's shape),
\* per-class weight vector (length NumClass)>>
estimate_weights_mfb(l) ==
    <<Map3(l, [x \in Values3(l) |-> ClassWeight(l, x)]),
      Arr(<<NumClass>>, [c \in 1..NumClass |-> ClassWeight(l, c - 1)])>>

(***************************************************************************)
(* The files the builder reads.  A volume ID names an intensity volume      *)
(* <data_dir>/ID/mri/orig.mgz and a label volume <label_dir>/ID_glm.mgz.   *)
(* Raw label IDs: 0 background, 2 and 41 known to both remap tables,       *)
(* 77 known to neither.                                                    *)
(***************************************************************************)

LabelA(i, j, k) ==
    CASE k = 2 /\ i = 1 /\ j = 1 -> 2
      [] k = 4 /\ i = 2 /\ j = 1 -> 41
      [] k = 4 /\ i = 1 /\ j = 2 -> 2
      [] k = 5 /\ i = 2 /\ j = 2 -> 77
      [] OTHER -> 0

LabelB(i, j, k) == IF k \in {2, 3, 4} THEN (IF i = 1 THEN 2 ELSE 41) ELSE 0

LabelC(i, j, k) ==
    CASE k = 1 /\ i = 3 -> 41
      [] k = 2 /\ j = 1 -> 2
      [] OTHER -> 0

LabelZ(i, j, k) == 0

IntensityA(i, j, k) == i + 2 * j + 4 * k
IntensityB(i, j, k) == 10 * k + i
IntensityZ(i, j, k) == 7

Voxel(name, i, j, k) ==
    CASE name = "LabelA" -> LabelA(i, j, k)
      [] name = "LabelB" -> LabelB(i, j, k)
      [] name = "LabelC" -> LabelC(i, j, k)
      [] name = "LabelZ" -> LabelZ(i, j, k)
      [] name = "IntensityA" -> IntensityA(i, j, k)
      [] name = "IntensityB" -> IntensityB(i, j, k)
      [] name = "IntensityZ" -> IntensityZ(i, j, k)

\* the array nb.load(...).get_fdata() returns for a file of the given shape
MkArr(shape, name) ==
    Arr(shape, [i \in 1..shape[1] |-> [j \in 1..shape[2] |->
                   [k \in 1..shape[3] |-> Voxel(name, i, j, k)]]])

Disk ==
    [a |-> [volume |-> MkArr(<<2, 2, 5>>, "IntensityA"), label |-> MkArr(<<2, 2, 5>>, "LabelA")],
     b |-> [volume |-> MkArr(<<2, 2, 5>>, "IntensityB"), label |-> MkArr(<<2, 2, 5>>, "LabelB")],
     c |-> [volume |-> MkArr(<<3, 2, 5>>, "IntensityA"), label |-> MkArr(<<3, 2, 5>>, "LabelC")],
     z |-> [volume |-> MkArr(<<2, 2, 5>>, "IntensityZ"), label |-> MkArr(<<2, 2, 5>>, "LabelZ")]]

\* the lines a volume-list file may hold; "" is a blank line
VolumeIds == {"a", "b", "c", "z", ""}

RECURSIVE SeqsUpTo(_, _)
\* the sequences over S of length at most n
SeqsUpTo(S, n) ==
    IF n = 0 THEN {<<>>}
    ELSE LET shorter == SeqsUpTo(S, n - 1)
         IN shorter \cup {Append(q, x) : q \in shorter, x \in S}

\* the contents a volume-list file may have: up to MaxVols lines for the train
\* list of the builder, up to MaxTestVols lines for any other list
VolumeLists(entry, sp) ==
    SeqsUpTo(VolumeIds, IF entry = "main" /\ sp = "train" THEN MaxVols ELSE MaxTestVols)

(***************************************************************************)
(* load_and_preprocess (data_utils.py lines 51-94)                         *)
(***************************************************************************)
EmptyLists ==
    [volume_list |-> <<>>, labelmap_list |-> <<>>,
     class_weights_list |-> <<>>, weights_list |-> <<>>]

IOEvent(op, file) == [op |-> op, file |-> file]

\* line 69: volume = (volume - min) / (max - min), elementwise
Normalize(v) ==
    LET vals == Values3(v)
        mn   == CHOOSE x \in vals : \A y \in vals : x <= y
        mx   == CHOOSE x \in vals : \A y \in vals : x >= y
    IN Map3(v, [x \in vals |-> Frac(x - mn, mx - mn)])

\* the loop body with remove_black run before remap_labels
StepAfterSwapped(p) ==
    CASE p = "lp_load"    -> "lp_norm"
      [] p = "lp_norm"    -> "lp_rotate"
      [] p = "lp_rotate"  -> "lp_reduce"
      [] p = "lp_reduce"  -> "lp_remove"
      [] p = "lp_remove"  -> "lp_remap"
      [] p = "lp_remap"   -> "lp_append"
      [] p = "lp_append"  -> "lp_weights"
      [] p = "lp_weights" -> "lp_progress"

\* the statement that follows each statement of the loop body (lines 68-89)
StepAfter(p) ==
    CASE p = "lp_load"    -> "lp_norm"
      [] p = "lp_norm"    -> "lp_rotate"
      [] p = "lp_rotate"  -> "lp_reduce"
      [] p = "lp_reduce"  -> "lp_remap"
      [] p = "lp_remap"   -> "lp_remove"
      [] p = "lp_remove"  -> "lp_append"
      [] p = "lp_append"  -> "lp_weights"
      [] p = "lp_weights" -> "lp_progress"

Raise(e) ==
    /\ pc' = "failed"
    /\ err' = e

\* line 59-65: read the list file, build file_paths, empty result lists
LpOpen ==
    /\ pc = "lp_open"
    /\ io' = Append(io, IOEvent("open_list", split))
    /\ \/ \E lines \in VolumeLists(args.entry, split) :
            /\ volumes_to_use' = lines
            /\ lists' = EmptyLists
            /\ idx' = 1
            /\ pc' = IF lines = <<>> THEN "lp_return" ELSE "lp_load"
            /\ err' = err
       \/ /\ Raise("IOError")        \* the list file does not exist
          /\ UNCHANGED <<volumes_to_use, lists, idx>>
    /\ UNCHANGED <<args, split, volume, labelmap, corpus, steps, handles>>

\* a loop that skips a volume it cannot load and goes on with the next one
LpLoadSkipping ==
    /\ pc = "lp_load"
    /\ LET id == volumes_to_use[idx]
       IN IF id \in DOMAIN Disk
          THEN /\ io' = io \o <<IOEvent("load", <<id, "orig">>),
                                IOEvent("load", <<id, "glm">>)>>
               /\ volume' = Disk[id].volume
               /\ labelmap' = Disk[id].label
               /\ steps' = <<>>
               /\ pc' = StepAfter(pc)
          ELSE /\ io' = Append(io, IOEvent("load", <<id, "orig">>))
               /\ pc' = "lp_progress"
               /\ UNCHANGED <<volume, labelmap, steps>>
    /\ UNCHANGED <<args, split, volumes_to_use, idx, lists, corpus, handles, err>>

\* line 68: nb.load of the intensity volume, then of the label volume
LpLoad ==
    /\ pc = "lp_load"
    /\ LET id == volumes_to_use[idx]
       IN IF id \in DOMAIN Disk
          THEN /\ io' = io \o <<IOEvent("load", <<id, "orig">>),
                                IOEvent("load", <<id, "glm">>)>>
               /\ volume' = Disk[id].volume
               /\ labelmap' = Disk[id].label
               /\ steps' = <<>>
               /\ pc' = StepAfter(pc)
               /\ err' = err
          ELSE /\ io' = Append(io, IOEvent("load", <<id, "orig">>))
               /\ Raise("IOError")
               /\ UNCHANGED <<volume, labelmap, steps>>
    /\ UNCHANGED <<args, split, volumes_to_use, idx, lists, corpus, handles>>

\* line 69
LpNorm ==
    /\ pc = "lp_norm"
    /\ volume' = Normalize(volume)
    /\ steps' = Append(steps, "normalize")
    /\ pc' = StepAfter(pc)
    /\ UNCHANGED <<args, split, volumes_to_use, idx, labelmap, lists, corpus, io,
                   handles, err>>

\* line 70
LpRotate ==
    /\ pc = "lp_rotate"
    /\ IF args.orientation \in OrientationTokens
       THEN /\ volume' = rotate_orientation(volume, labelmap, args.orientation)[1]
            /\ labelmap' = rotate_orientation(volume, labelmap, args.orientation)[2]
            /\ steps' = Append(steps, "rotate_orientation")
            /\ pc' = StepAfter(pc)
            /\ err' = err
       ELSE /\ Raise("ConfigurationError")
            /\ UNCHANGED <<volume, labelmap, steps>>
    /\ UNCHANGED <<args, split, volumes_to_use, idx, lists, corpus, io, handles>>

\* lines 72-73
LpReduce ==
    /\ pc = "lp_reduce"
    /\ IF args.reduce_slices
       THEN /\ volume' = reduce_slices(volume, labelmap)[1]
            /\ labelmap' = reduce_slices(volume, labelmap)[2]
            /\ steps' = Append(steps, "reduce_slices")
       ELSE UNCHANGED <<volume, labelmap, steps>>
    /\ pc' = StepAfter(pc)
    /\ UNCHANGED <<args, split, volumes_to_use, idx, lists, corpus, io, handles, err>>

\* lines 75-76
LpRemap ==
    /\ pc = "lp_remap"
    /\ IF args.remap_config # None
       THEN IF args.remap_config \in RemapTokens
            THEN /\ labelmap' = remap_labels(labelmap, args.remap_config)
                 /\ steps' = Append(steps, "remap_labels")
                 /\ pc' = StepAfter(pc)
                 /\ err' = err
            ELSE /\ Raise("ConfigurationError")
                 /\ UNCHANGED <<labelmap, steps>>
       ELSE /\ pc' = StepAfter(pc)
            /\ UNCHANGED <<labelmap, steps, err>>
    /\ UNCHANGED <<args, split, volumes_to_use, idx, volume, lists, corpus, io, handles>>

\* lines 78-79
LpRemove ==
    /\ pc = "lp_remove"
    /\ IF args.remove_black
       THEN /\ volume' = remove_black(volume, labelmap)[1]
            /\ labelmap' = remove_black(volume, labelmap)[2]
            /\ steps' = Append(steps, "remove_black")
       ELSE UNCHANGED <<volume, labelmap, steps>>
    /\ pc' = StepAfter(pc)
    /\ UNCHANGED <<args, split, volumes_to_use, idx, lists, corpus, io, handles, err>>

\* lines 81-82
LpAppend ==
    /\ pc = "lp_append"
    /\ lists' = [lists EXCEPT !.volume_list = Append(@, volume),
                              !.labelmap_list = Append(@, labelmap)]
    /\ pc' = StepAfter(pc)
    /\ UNCHANGED <<args, split, volumes_to_use, idx, volume, labelmap, corpus, io,
                   steps, handles, err>>

\* lines 84-87
LpWeights ==
    /\ pc = "lp_weights"
    /\ IF args.return_weights
       THEN /\ lists' = [lists EXCEPT
                   !.class_weights_list = Append(@, estimate_weights_mfb(labelmap)[1]),
                   !.weights_list = Append(@, estimate_weights_mfb(labelmap)[2])]
            /\ steps' = Append(steps, "estimate_weights_mfb")
       ELSE UNCHANGED <<lists, steps>>
    /\ pc' = StepAfter(pc)
    /\ UNCHANGED <<args, split, volumes_to_use, idx, volume, labelmap, corpus, io,
                   handles, err>>

\* line 89, and the loop's next iteration or exit
LpProgress ==
    /\ pc = "lp_progress"
    /\ idx' = idx + 1
    /\ pc' = IF idx < Len(volumes_to_use) THEN "lp_load" ELSE "lp_return"
    /\ UNCHANGED <<args, split, volumes_to_use, volume, labelmap, lists, corpus, io,
                   steps, handles, err>>

\* lines 90-94: back to the caller
LpReturn ==
    /\ pc = "lp_return"
    /\ pc' = IF args.entry = "main" THEN "concat" ELSE "returned"
    /\ UNCHANGED <<args, split, volumes_to_use, idx, volume, labelmap, lists, corpus,
                   io, steps, handles, err>>

(***************************************************************************)
(* _convertToHd5 (lines 97-115) and the __main__ block (lines 118-173)     *)
(***************************************************************************)
Ok(a) == [err |-> "none", arr |-> a]
Failed(e) == [err |-> e, arr |-> None]

\* a concatenation that does not compare the trailing dimensions
NpConcatenateUnchecked(arrs) ==
    Ok(Arr(<<SumSeq([m \in 1..Len(arrs) |-> arrs[m].shape[1]])>> \o Tail(arrs[1].shape),
           Flat([m \in 1..Len(arrs) |-> arrs[m].val])))

\* a concatenation that puts the later arrays first
NpConcatenateReversed(arrs) ==
    IF \E m \in 1..Len(arrs) : Tail(arrs[m].shape) # Tail(arrs[1].shape)
    THEN Failed("ValueError")
    ELSE Ok(Arr(<<SumSeq([m \in 1..Len(arrs) |-> arrs[m].shape[1]])>>
                    \o Tail(arrs[1].shape),
                Flat([m \in 1..Len(arrs) |-> arrs[Len(arrs) + 1 - m].val])))

\* np.concatenate(arrs) along axis 0, for a non-empty list: every dimension but
\* the first must agree, or it raises ValueError
NpConcatenate(arrs) ==
    IF \E m \in 1..Len(arrs) : Tail(arrs[m].shape) # Tail(arrs[1].shape)
    THEN Failed("ValueError")
    ELSE Ok(Arr(<<SumSeq([m \in 1..Len(arrs) |-> arrs[m].shape[1]])>>
                    \o Tail(arrs[1].shape),
                Flat([m \in 1..Len(arrs) |-> arrs[m].val])))

\* a.reshape((-1, H, W)) of a rank-3 array: its elements in row-major order,
\* regrouped; ValueError when their number is no multiple of H * W
Reshape3(a, H, W) ==
    LET flat == Flat(Flat(a.val))
        n    == Len(flat)
    IN IF H * W = 0 \/ n % (H * W) # 0
       THEN Failed("ValueError")
       ELSE Ok(Arr(<<n \div (H * W), H, W>>,
                   [i \in 1..(n \div (H * W)) |-> [j \in 1..H |-> [k \in 1..W |->
                       flat[((i - 1) * H + (j - 1)) * W + k]]]]))

\* np.concatenate(arrs).reshape((-1, H, W))
ConcatReshape(arrs, H, W) ==
    LET c == NpConcatenate(arrs)
    IN IF c.err # "none" THEN c ELSE Reshape3(c.arr, H, W)

\* the returned tuple with the first volume's weight vector in place of the
\* concatenation of all of them
ConvertResultFirstWeights(ls) ==
    LET H  == ls.volume_list[1].shape[2]
        W  == ls.volume_list[1].shape[3]
        d  == ConcatReshape(ls.volume_list, H, W)
        l  == ConcatReshape(ls.labelmap_list, H, W)
        cw == ConcatReshape(ls.class_weights_list, H, W)
    IN IF d.err # "none" THEN Failed(d.err)
       ELSE IF l.err # "none" THEN Failed(l.err)
       ELSE IF cw.err # "none" THEN Failed(cw.err)
       ELSE Ok([data |-> d.arr, label |-> l.arr,
                class_weights |-> cw.arr, weights |-> ls.weights_list[1]])

\* lines 113-115, for non-empty lists: the four arrays of the returned tuple,
\* evaluated left to right; the first failure is the one raised
ConvertResult(ls) ==
    LET H  == ls.volume_list[1].shape[2]
        W  == ls.volume_list[1].shape[3]
        d  == ConcatReshape(ls.volume_list, H, W)
        l  == ConcatReshape(ls.labelmap_list, H, W)
        cw == ConcatReshape(ls.class_weights_list, H, W)
        w  == NpConcatenate(ls.weights_list)
    IN IF d.err # "none" THEN Failed(d.err)
       ELSE IF l.err # "none" THEN Failed(l.err)
       ELSE IF cw.err # "none" THEN Failed(cw.err)
       ELSE IF w.err # "none" THEN Failed(w.err)
       ELSE Ok([data |-> d.arr, label |-> l.arr,
                class_weights |-> cw.arr, weights |-> w.arr])

\* lines 113-115 of _convertToHd5, and the caller's next statement
Concat ==
    /\ pc = "concat"
    /\ IF lists.volume_list = <<>>
       THEN /\ Raise("IndexError")          \* data_h5[0] of an empty list
            /\ UNCHANGED corpus
       ELSE LET r == ConvertResult(lists)
            IN IF r.err # "none"
               THEN /\ Raise(r.err)
                    /\ UNCHANGED corpus
               ELSE /\ corpus' = [corpus EXCEPT ![split] = <<r.arr>>]
                    /\ pc' = IF split = "train" THEN "main_test" ELSE "makedirs"
                    /\ err' = err
    /\ UNCHANGED <<args, split, volumes_to_use, idx, volume, labelmap, lists, io,
                   steps, handles>>

\* lines 134-137: the train split's _convertToHd5 call
MainTrain ==
    /\ pc = "main"
    /\ split' = "train"
    /\ pc' = "lp_open"
    /\ UNCHANGED <<args, volumes_to_use, idx, volume, labelmap, lists, corpus, io,
                   steps, handles, err>>

\* lines 139-142: the test split's _convertToHd5 call
MainTest ==
    /\ pc = "main_test"
    /\ split' = "test"
    /\ pc' = "lp_open"
    /\ UNCHANGED <<args, volumes_to_use, idx, volume, labelmap, lists, corpus, io,
                   steps, handles, err>>

\* lines 144-145: the destination folder is created when given and missing
Makedirs ==
    /\ pc = "makedirs"
    /\ \E missing \in BOOLEAN :
          io' = IF missing THEN Append(io, IOEvent("makedirs", "destination")) ELSE io
    /\ pc' = "h5_open"
    /\ UNCHANGED <<args, split, volumes_to_use, idx, volume, labelmap, lists, corpus,
                   steps, handles, err>>

\* the handles of the `with` statement, in the order it opens them (158-164)
H5Files ==
    <<"Data_train", "Label_train", "Weight_train", "Class_Weight_train",
      "Data_test", "Label_test", "Weight_test", "Class_Weight_test">>

\* leaving the `with` block, normally or by an exception: every handle that was
\* opened is closed
WithExit(h) == [f \in DOMAIN h |-> IF h[f].state = "open"
                                   THEN [h[f] EXCEPT !.state = "closed"] ELSE h[f]]

NextToOpen == CHOOSE m \in 1..Len(H5Files) :
                  /\ handles[H5Files[m]].state = "unopened"
                  /\ \A q \in 1..(m - 1) : handles[H5Files[q]].state # "unopened"

\* lines 158-164: h5py.File(..., "w") of the next file; it may fail
H5Open ==
    /\ pc = "h5_open"
    /\ \/ /\ handles' = [handles EXCEPT ![H5Files[NextToOpen]].state = "open"]
          /\ io' = Append(io, IOEvent("h5create", H5Files[NextToOpen]))
          /\ pc' = IF NextToOpen = Len(H5Files) THEN "h5_write" ELSE "h5_open"
          /\ err' = err
       \/ /\ handles' = WithExit(handles)
          /\ io' = io
          /\ Raise("OSError")
    /\ UNCHANGED <<args, split, volumes_to_use, idx, volume, labelmap, lists, corpus,
                   steps>>

\* lines 165-172: which array goes to which handle
DatasetOf(f) ==
    CASE f = "Data_train"         -> corpus["train"][1].data
      [] f = "Label_train"        -> corpus["train"][1].label
      [] f = "Class_Weight_train" -> corpus["train"][1].class_weights
      [] f = "Weight_train"       -> corpus["train"][1].weights
      [] f = "Data_test"          -> corpus["test"][1].data
      [] f = "Label_test"         -> corpus["test"][1].label
      [] f = "Class_Weight_test"  -> corpus["test"][1].class_weights
      [] f = "Weight_test"        -> corpus["test"][1].weights

\* lines 165-173: the eight create_dataset calls, then the end of the `with`
H5Write ==
    /\ pc = "h5_write"
    /\ \/ /\ handles' = WithExit([f \in DOMAIN handles |->
                                     [handles[f] EXCEPT !.data = <<DatasetOf(f)>>]])
          /\ pc' = "finish"
          /\ err' = err
       \/ /\ handles' = WithExit(handles)     \* a create_dataset call fails
          /\ Raise("OSError")
    /\ UNCHANGED <<args, split, volumes_to_use, idx, volume, labelmap, lists, corpus,
                   io, steps>>

(***************************************************************************)
(* ImdbData (lines 18-31) and get_data (lines 34-48)                       *)
(***************************************************************************)
\* X[:, :, :, np.newaxis]: the new axis put last
NewAxisLast(X) ==
    Arr(X.shape \o <<1>>,
        [i \in 1..X.shape[1] |-> [j \in 1..X.shape[2] |-> [k \in 1..X.shape[3] |->
            <<X.val[i][j][k]>>]]])

\* X[:, np.newaxis, :, :] of a rank-3 array: a new axis of size 1 in position 1
NewAxis1(X) ==
    Arr(<<X.shape[1], 1>> \o Tail(X.shape), [i \in 1..X.shape[1] |-> <<X.val[i]>>])

\* ImdbData.__init__ (lines 19-22)
ImdbInit(X, y, w) ==
    [X |-> IF Len(X.shape) = 4 THEN X ELSE NewAxis1(X), y |-> y, w |-> w]

\* a[index] of numpy: 0-based, a negative index counts from the end, anything
\* outside -n .. n-1 raises IndexError
InRange(a, index) == -a.shape[1] <= index /\ index < a.shape[1]

Index0(a, index) ==
    LET n   == a.shape[1]
        pos == IF index < 0 THEN index + n + 1 ELSE index + 1
    IN Arr(Tail(a.shape), a.val[pos])

\* torch.from_numpy: a tensor of the same shape over the same elements
FromNumpy(a) == [type |-> "Tensor", shape |-> a.shape, val |-> a.val]

\* ImdbData.__getitem__ (lines 24-28), for an index in range of all three
ImdbGetItem(d, index) ==
    [img    |-> FromNumpy(Index0(d.X, index)),
     label  |-> FromNumpy(Index0(d.y, index)),
     weight |-> FromNumpy(Index0(d.w, index))]

\* ImdbData.__len__ (lines 30-31)
ImdbLen(d) == d.y.shape[1]

\* the datasets a persisted corpus may hold: n entries of 1 x 2 pixels, the
\* images with or without a channel axis (of size 2)
SampleX3(n, base) ==
    Arr(<<n, 1, 2>>, [i \in 1..n |-> <<<<base + 10 * i + 1, base + 10 * i + 2>>>>])
SampleX4(n, base) ==
    Arr(<<n, 2, 1, 2>>,
        [i \in 1..n |-> <<<<<<base + 10 * i + 1, base + 10 * i + 2>>>>,
                          <<<<base + 10 * i + 3, base + 10 * i + 4>>>>>>])
SampleY(n, base) ==
    Arr(<<n, 1, 2>>, [i \in 1..n |-> <<<<(base + i) % NumClass, (base + i + 1) % NumClass>>>>])
SampleV(n) == Arr(<<n>>, [i \in 1..n |-> i])

\* the files get_data opens, in the order it opens them (lines 35-43)
ReadFiles ==
    <<"Data_train", "Label_train", "Class_Weight_train", "Weight_train",
      "Data_test", "Label_test", "Class_Weight_test", "Weight_test">>

FileSet == {ReadFiles[m] : m \in 1..Len(ReadFiles)}

SplitFiles(rank, n, base) ==
    [data |-> IF rank = 4 THEN SampleX4(n, base) ELSE SampleX3(n, base),
     label |-> SampleY(n, base),
     class_weights |-> SampleX3(n, base + 500),
     weights |-> SampleV(NumClass)]

FilesOf(tr, te) ==
    [f \in FileSet |->
        CASE f = "Data_train"         -> tr.data
          [] f = "Label_train"        -> tr.label
          [] f = "Class_Weight_train" -> tr.class_weights
          [] f = "Weight_train"       -> tr.weights
          [] f = "Data_test"          -> te.data
          [] f = "Label_test"         -> te.label
          [] f = "Class_Weight_test"  -> te.class_weights
          [] f = "Weight_test"        -> te.weights]

DNextToOpen == CHOOSE m \in 1..Len(ReadFiles) :
                   /\ dhandles[ReadFiles[m]] = "unopened"
                   /\ \A q \in 1..(m - 1) : dhandles[ReadFiles[q]] # "unopened"

\* lines 35-43: h5py.File(path, 'r') of the next file; a missing file raises and
\* nothing closes the handles opened before it
GetDataOpen ==
    /\ dpc = "open"
    /\ LET f == ReadFiles[DNextToOpen]
       IN IF ~files[f].present
          THEN /\ dpc' = "failed"
               /\ derr' = "OSError"
               /\ UNCHANGED dhandles
          ELSE /\ dhandles' = [dhandles EXCEPT ![f] = "open"]
               /\ dpc' = IF DNextToOpen = Len(ReadFiles) THEN "build" ELSE "open"
               /\ UNCHANGED derr
    /\ UNCHANGED <<files, imdb, got>>

\* lines 45-48: the two ImdbData objects are built and returned; no handle is
\* closed on the way out
GetDataReturn ==
    /\ dpc = "build"
    /\ imdb' = <<[train |-> ImdbInit(files["Data_train"].arr, files["Label_train"].arr,
                                   files["Class_Weight_train"].arr),
                test  |-> ImdbInit(files["Data_test"].arr, files["Label_test"].arr,
                                   files["Class_Weight_test"].arr)]>>
    /\ dpc' = "returned"
    /\ UNCHANGED <<files, dhandles, got, derr>>

\* a caller's dataset[index] on one of the two returned datasets (lines 24-28)
GetItem ==
    /\ dpc = "returned"
    /\ \E s \in {"train", "test"}, index \in (-MaxN - 1)..MaxN :
          LET d == imdb[1][s]
          IN IF InRange(d.X, index) /\ InRange(d.y, index) /\ InRange(d.w, index)
             THEN /\ got' = <<[split |-> s, index |-> index, len |-> ImdbLen(d),
                               item |-> <<ImdbGetItem(d, index)>>]>>
                  /\ UNCHANGED <<dpc, derr>>
             ELSE /\ got' = <<[split |-> s, index |-> index, len |-> ImdbLen(d),
                               item |-> <<>>]>>
                  /\ dpc' = "failed"
                  /\ derr' = "IndexError"
    /\ UNCHANGED <<files, dhandles, imdb>>

(***************************************************************************)
(* LogWriter: the confusion-matrix and Dice accumulators (log_utils.py)    *)
(***************************************************************************)
Phases == {"train", "val"}

ZeroVector == [c \in 1..NumClass |-> 0]
ZeroMatrix == [r \in 1..NumClass |-> ZeroVector]

MatAdd(A, B) == [r \in 1..NumClass |-> [c \in 1..NumClass |-> A[r][c] + B[r][c]]]
MatDiv(A, d) == [r \in 1..NumClass |-> [c \in 1..NumClass |-> Frac(A[r][c], d)]]
VecAdd(u, v) == [c \in 1..NumClass |-> u[c] + v[c]]
VecDiv(u, d) == [c \in 1..NumClass |-> Frac(u[c], d)]

\* the batch confusion matrices eu.dice_confusion_matrix may return, and the
\* per-class score vectors eu.dice_score_perclass may return
BatchMatrices ==
    {<<<<2, 0, 0>>, <<0, 1, 1>>, <<0, 0, 0>>>>,
     <<<<0, 1, 0>>, <<1, 0, 0>>, <<0, 0, 3>>>>}
ScoreVectors == {<<1, 0, 1>>, <<0, 1, 1>>}

\* init_cm (lines 157-161): a fresh zero matrix for each phase
init_cm == [p \in Phases |-> ZeroMatrix]

\* init_ds (lines 163-164)
init_ds == ZeroVector

\* `=` in place of `+=`
AddBatchAssign(c, phase, M) == [c EXCEPT ![phase] = M]

\* line 57: self._cm[phase] += cm_batch
AddBatch(c, phase, M) == [c EXCEPT ![phase] = MatAdd(@, M)]

Op(name, phase) ==
    [op |-> name, phase |-> phase, cm_before |-> cm, ds_before |-> ds,
     since_before |-> since]

\* update_cm_per_iter (lines 54-58)
update_cm_per_iter ==
    /\ iters < MaxIter
    /\ \E phase \in Phases, M \in BatchMatrices :
          /\ cm' = AddBatch(cm, phase, M)
          /\ since' = [since EXCEPT ![phase] = Append(@, M)]
          /\ last' = Op("update_cm_per_iter", phase)
    /\ iters' = iters + 1
    /\ UNCHANGED <<ds, plotted>>

\* a flush that resets the accumulator of its own phase only
cm_per_epoch_own_phase ==
    /\ \E phase \in Phases, i_batch \in 0..(MaxIter - 1) :
          /\ plotted' = [caption |-> "confusion_matrix", phase |-> phase,
                         sum |-> cm[phase], fig |-> MatDiv(cm[phase], i_batch + 1)]
          /\ last' = Op("cm_per_epoch", phase)
          /\ cm' = [cm EXCEPT ![phase] = ZeroMatrix]
    /\ since' = [p \in Phases |-> <<>>]
    /\ UNCHANGED <<ds, iters>>

\* cm_per_epoch (lines 60-65): the mean over i_batch + 1 batches is plotted, then
\* init_cm() runs
cm_per_epoch ==
    /\ \E phase \in Phases, i_batch \in 0..(MaxIter - 1) :
          /\ plotted' = [caption |-> "confusion_matrix", phase |-> phase,
                         sum |-> cm[phase], fig |-> MatDiv(cm[phase], i_batch + 1)]
          /\ last' = Op("cm_per_epoch", phase)
    /\ cm' = init_cm
    /\ since' = [p \in Phases |-> <<>>]
    /\ UNCHANGED <<ds, iters>>

\* update_dice_score_per_iteration (lines 96-99)
update_dice_score_per_iteration ==
    /\ iters < MaxIter
    /\ \E v \in ScoreVectors : ds' = VecAdd(ds, v)
    /\ last' = Op("update_dice_score_per_iteration", "val")
    /\ iters' = iters + 1
    /\ UNCHANGED <<cm, plotted, since>>

\* dice_score_per_epoch (lines 101-106)
dice_score_per_epoch ==
    /\ \E i_batch \in 0..(MaxIter - 1) :
          plotted' = [caption |-> "dice_score_per_epoch", phase |-> "val",
                      sum |-> ds, fig |-> VecDiv(ds, i_batch + 1)]
    /\ last' = Op("dice_score_per_epoch", "val")
    /\ ds' = init_ds
    /\ UNCHANGED <<cm, since, iters>>

(***************************************************************************)
(* The three specifications                                                *)
(***************************************************************************)
BuildIdle ==
    /\ pc = "idle" /\ args = <<>> /\ split = "train" /\ volumes_to_use = <<>>
    /\ idx = 1 /\ volume = <<>> /\ labelmap = <<>> /\ lists = EmptyLists
    /\ corpus = [s \in {"train", "test"} |-> <<>>] /\ io = <<>> /\ steps = <<>>
    /\ handles = <<>> /\ err = "none"

DataIdle ==
    /\ dpc = "idle" /\ files = <<>> /\ dhandles = <<>> /\ imdb = <<>>
    /\ got = <<>> /\ derr = "none"

LogIdle ==
    /\ cm = init_cm /\ ds = init_ds /\ plotted = <<>>
    /\ since = [p \in Phases |-> <<>>] /\ last = <<>> /\ iters = 0

\* the command line of the builder (lines 121-133): _convertToHd5 always asks
\* for weights, slice reduction and black-slice removal (lines 108-110)
MainArgs ==
    {[entry |-> "main", orientation |-> o, remap_config |-> rc,
      return_weights |-> TRUE, reduce_slices |-> TRUE, remove_black |-> TRUE] :
        o \in OrientationTokens \cup {"XYZ"}, rc \in {"Neo", "XX"}}

\* a direct call of load_and_preprocess (lines 51-58)
LoadArgs ==
    {[entry |-> "load_and_preprocess", orientation |-> o, remap_config |-> rc,
      return_weights |-> w, reduce_slices |-> r, remove_black |-> b] :
        o \in {"COR", "XYZ"}, rc \in {None, "FS", "XX"},
        w \in BOOLEAN, r \in BOOLEAN, b \in BOOLEAN}

BuildInit ==
    /\ args \in MainArgs \cup LoadArgs
    /\ pc = IF args.entry = "main" THEN "main" ELSE "lp_open"
    /\ split = "train"
    /\ volumes_to_use = <<>>
    /\ idx = 1
    /\ volume = <<>>
    /\ labelmap = <<>>
    /\ lists = EmptyLists
    /\ corpus = [s \in {"train", "test"} |-> <<>>]
    /\ io = <<>>
    /\ steps = <<>>
    /\ handles = [f \in FileSet |-> [state |-> "unopened", data |-> <<>>]]
    /\ err = "none"
    /\ DataIdle
    /\ LogIdle

BuildNext ==
    /\ \/ MainTrain \/ MainTest
       \/ LpOpen \/ LpLoad \/ LpNorm \/ LpRotate \/ LpReduce \/ LpRemap \/ LpRemove
       \/ LpAppend \/ LpWeights \/ LpProgress \/ LpReturn
       \/ Concat \/ Makedirs \/ H5Open \/ H5Write
    /\ UNCHANGED <<dvars, lvars>>

SpecBuild == BuildInit /\ [][BuildNext]_vars

DataInit ==
    /\ dpc = "open"
    /\ \E rtr \in {3, 4}, rte \in {3, 4}, ntr \in 1..MaxN, nte \in 1..MaxN,
          miss \in FileSet \cup {None} :
          files = [f \in FileSet |->
                      [present |-> f # miss,
                       arr |-> FilesOf(SplitFiles(rtr, ntr, 1000),
                                       SplitFiles(rte, nte, 2000))[f]]]
    /\ dhandles = [f \in FileSet |-> "unopened"]
    /\ imdb = <<>>
    /\ got = <<>>
    /\ derr = "none"
    /\ BuildIdle
    /\ LogIdle

DataNext ==
    /\ \/ GetDataOpen \/ GetDataReturn \/ GetItem
    /\ UNCHANGED <<bvars, lvars>>

SpecData == DataInit /\ [][DataNext]_vars

\* LogWriter.__init__ (lines 36-39)
LogInit ==
    /\ cm = init_cm
    /\ ds = init_ds
    /\ plotted = <<>>
    /\ since = [p \in Phases |-> <<>>]
    /\ last = Op("__init__", "train")
    /\ iters = 0
    /\ BuildIdle
    /\ DataIdle

LogNext ==
    /\ \/ update_cm_per_iter \/ cm_per_epoch
       \/ update_dice_score_per_iteration \/ dice_score_per_epoch
    /\ UNCHANGED <<bvars, dvars>>

SpecLog == LogInit /\ [][LogNext]_vars

(***************************************************************************)
(* Properties                                                              *)
(***************************************************************************)
\* The steps the documented order prescribes for a call with arguments a.
ExpectedSteps(a) ==
    <<"normalize", "rotate_orientation">>
    \o (IF a.reduce_slices THEN <<"reduce_slices">> ELSE <<>>)
    \o (IF a.remap_config # None THEN <<"remap_labels">> ELSE <<>>)
    \o (IF a.remove_black THEN <<"remove_black">> ELSE <<>>)
    \o (IF a.return_weights THEN <<"estimate_weights_mfb">> ELSE <<>>)

\* The <<volume, labelmap>> pair the documented order yields for the volume
\* named id, for valid tokens.
Expected(id, a) ==
    LET p0 == <<Normalize(Disk[id].volume), Disk[id].label>>
        p1 == rotate_orientation(p0[1], p0[2], a.orientation)
        p2 == IF a.reduce_slices THEN reduce_slices(p1[1], p1[2]) ELSE p1
        p3 == IF a.remap_config # None
              THEN <<p2[1], remap_labels(p2[2], a.remap_config)>> ELSE p2
    IN IF a.remove_black THEN remove_black(p3[1], p3[2]) ELSE p3

IsPrefix(q, r) == Len(q) <= Len(r) /\ q = SubSeq(r, 1, Len(q))

InLoop == pc \in {"lp_norm", "lp_rotate", "lp_reduce", "lp_remap", "lp_remove",
                  "lp_append", "lp_weights", "lp_progress"}

\* C1: in load_and_preprocess every volume goes through normalization,
\* rotate_orientation, then reduce_slices, remap_labels, remove_black and
\* estimate_weights_mfb, each only if enabled, in exactly this order; a disabled
\* step is skipped, and the weights are those of the labelmap as the enabled
\* earlier steps left it.
C1_FixedStepOrder ==
    /\ InLoop => IsPrefix(steps, ExpectedSteps(args))
    /\ pc = "lp_progress" =>
          LET e == Expected(volumes_to_use[idx], args)
          IN /\ steps = ExpectedSteps(args)
             /\ volume = e[1]
             /\ labelmap = e[2]
             /\ lists.volume_list[idx] = e[1]
             /\ lists.labelmap_list[idx] = e[2]
             /\ args.return_weights =>
                   /\ lists.class_weights_list[idx] = estimate_weights_mfb(e[2])[1]
                   /\ lists.weights_list[idx] = estimate_weights_mfb(e[2])[2]

\* a volume processed with reduce_slices disabled and the other steps enabled:
\* the slice of unknown labels is black only after the remap, and is removed
C1_Witness ==
    /\ pc = "lp_progress"
    /\ volumes_to_use[idx] = "a"
    /\ args.orientation = "COR"
    /\ ~args.reduce_slices /\ args.remap_config = "FS"
    /\ args.remove_black /\ args.return_weights
    /\ Len(steps) = 5
    /\ labelmap.shape = <<2, 2, 2>>

\* the split whose lists and corpus the current state holds, just after the
\* concatenation of lines 113-115
JustConcatenated == pc \in {"main_test", "makedirs"}

\* C2: load_and_preprocess returns one entry per listed volume, in list order,
\* and _convertToHd5 concatenates them: the corpus has the sum of the volumes'
\* slice counts, the volumes in list order, each volume's slices one contiguous
\* block in their own order.
C2_ConcatenatedInListOrder ==
    /\ pc \in {"lp_return", "returned", "concat"} =>
          /\ Len(lists.volume_list) = Len(volumes_to_use)
          /\ Len(lists.labelmap_list) = Len(volumes_to_use)
          /\ \A i \in 1..Len(volumes_to_use) :
                /\ lists.volume_list[i] = Expected(volumes_to_use[i], args)[1]
                /\ lists.labelmap_list[i] = Expected(volumes_to_use[i], args)[2]
    /\ JustConcatenated =>
          LET ids == volumes_to_use
              exp == [i \in 1..Len(ids) |-> Expected(ids[i], args)]
              c   == corpus[split][1]
              n   == SumSeq([i \in 1..Len(ids) |-> exp[i][1].shape[1]])
          IN /\ c.data.shape[1] = n
             /\ c.label.shape[1] = n
             /\ c.data.val = Flat([i \in 1..Len(ids) |-> exp[i][1].val])
             /\ c.label.val = Flat([i \in 1..Len(ids) |-> exp[i][2].val])

\* two volumes of 3 and 2 retained slices give a corpus of 5
C2_Witness ==
    /\ pc = "main_test"
    /\ volumes_to_use = <<"b", "a">>
    /\ args.orientation = "COR"
    /\ lists.volume_list[1].shape[1] = 3
    /\ lists.volume_list[2].shape[1] = 2
    /\ corpus["train"][1].data.shape[1] = 5

Built(s) == Len(corpus[s]) = 1

\* C3 as stated: the four arrays of a corpus have the same length along their
\* leading axis.
C3_FourEqualLengths ==
    \A s \in {"train", "test"} :
        Built(s) =>
            LET c == corpus[s][1]
            IN /\ c.label.shape[1] = c.data.shape[1]
               /\ c.class_weights.shape[1] = c.data.shape[1]
               /\ c.weights.shape[1] = c.data.shape[1]

\* C3, amended: images, labels and per-pixel weights have the same leading
\* length, the number of retained slices; the per-class weight array is the
\* concatenation of one weight vector per volume, of length NumClass times the
\* number of volumes.
C3_ThreeEqualLengths ==
    /\ \A s \in {"train", "test"} :
          Built(s) =>
              LET c == corpus[s][1]
              IN /\ c.label.shape[1] = c.data.shape[1]
                 /\ c.class_weights.shape[1] = c.data.shape[1]
                 /\ Len(c.data.val) = c.data.shape[1]
                 /\ Len(c.label.val) = c.data.shape[1]
                 /\ Len(c.class_weights.val) = c.data.shape[1]
                 /\ Len(c.weights.val) = c.weights.shape[1]
    /\ JustConcatenated =>
          LET c == corpus[split][1]
          IN /\ c.data.shape[1] =
                   SumSeq([i \in 1..Len(lists.volume_list) |->
                              lists.volume_list[i].shape[1]])
             /\ c.weights.shape[1] = NumClass * Len(volumes_to_use)

\* a corpus of 5 slices and two weight vectors
C3_Witness ==
    /\ pc = "main_test"
    /\ Len(volumes_to_use) = 2
    /\ corpus["train"][1].data.shape[1] = 5
    /\ corpus["train"][1].weights.shape[1] = 2 * NumClass

\* C5 as stated: when the corpus build fails with a configuration error, no
\* file operation has been performed yet.
C5_ConfigErrorBeforeIO ==
    (args.entry = "main" /\ err = "ConfigurationError") => io = <<>>

\* the load events since the list file of the current split was opened
RECURSIVE LoadsSinceOpen(_)
LoadsSinceOpen(events) ==
    IF events = <<>> \/ events[Len(events)].op = "open_list" THEN <<>>
    ELSE Append(LoadsSinceOpen(SubSeq(events, 1, Len(events) - 1)),
                events[Len(events)])

\* the load events of the first n listed volumes, each loaded once, in order
LoadsOf(ids, n) ==
    Flat([i \in 1..n |-> <<IOEvent("load", <<ids[i], "orig">>),
                           IOEvent("load", <<ids[i], "glm">>)>>])

BeforeWriting == err \in {"IOError", "ConfigurationError", "ValueError", "IndexError"}

\* C6: a volume that cannot be loaded or preprocessed ends the whole build at
\* that volume: the failure propagates, the volumes before it were each loaded
\* once, the failing one is tried once and not skipped, none after it is
\* touched, and no persisted file is created or written.
C6_FailureAbortsBuild ==
    /\ (\E m \in 1..Len(io) :
           io[m].op = "load" /\ io[m].file[1] \notin DOMAIN Disk)
          => pc = "failed" /\ err = "IOError"
    /\ (pc = "failed" /\ BeforeWriting) =>
          /\ ~ENABLED BuildNext
          /\ \A m \in 1..Len(io) : io[m].op \notin {"makedirs", "h5create"}
          /\ \A f \in FileSet : handles[f] = [state |-> "unopened", data |-> <<>>]
          /\ Len(corpus[split]) = 0
    /\ (pc = "failed" /\ err = "IOError" /\ io[Len(io)].op = "load") =>
          /\ LoadsSinceOpen(io) =
                Append(LoadsOf(volumes_to_use, idx - 1),
                       IOEvent("load", <<volumes_to_use[idx], "orig">>))
          /\ Len(lists.volume_list) = idx - 1
    /\ (pc = "failed" /\ err = "ConfigurationError") =>
          /\ LoadsSinceOpen(io) = LoadsOf(volumes_to_use, idx)
          /\ Len(lists.volume_list) = idx - 1

\* the train corpus is complete, a test volume is missing: the build
\* stops there and nothing is written
C6_Witness ==
    /\ pc = "failed" /\ err = "IOError"
    /\ split = "test"
    /\ Built("train")
    /\ idx = Len(volumes_to_use)
    /\ volumes_to_use[idx] \notin DOMAIN Disk

\* the volumes of a list do not all have the first one's (H, W)
Mismatch(ls) ==
    \E m \in 1..Len(ls.volume_list) :
        Tail(ls.volume_list[m].shape) # Tail(ls.volume_list[1].shape)

\* every slice of a rank-3 array has shape[2] rows of shape[3] elements
WellFormed3(a) ==
    /\ Len(a.shape) = 3
    /\ Len(a.val) = a.shape[1]
    /\ \A i \in 1..Len(a.val) :
          /\ Len(a.val[i]) = a.shape[2]
          /\ \A j \in 1..Len(a.val[i]) : Len(a.val[i][j]) = a.shape[3]

\* C8: when the volumes of a split differ in (H, W), the concatenation of
\* _convertToHd5 raises and returns nothing; no array it ever returns is
\* malformed.
C8_ShapeMismatchRaises ==
    /\ JustConcatenated => ~Mismatch(lists)
    /\ (pc = "failed" /\ err = "ValueError") =>
          /\ Mismatch(lists)
          /\ Len(corpus[split]) = 0
    /\ \A s \in {"train", "test"} :
          Built(s) =>
              /\ WellFormed3(corpus[s][1].data)
              /\ WellFormed3(corpus[s][1].label)
              /\ WellFormed3(corpus[s][1].class_weights)
              /\ Len(corpus[s][1].weights.val) = corpus[s][1].weights.shape[1]

\* volumes of (2, 2) and (3, 2) slices in one list: the concatenation raised
C8_Witness ==
    /\ pc = "failed" /\ err = "ValueError"
    /\ Mismatch(lists)
    /\ Len(lists.volume_list) = Len(volumes_to_use)

\* the arrays an ImdbData of split s was built from (lines 45-48)
SourceX(s) == files[IF s = "train" THEN "Data_train" ELSE "Data_test"].arr
SourceY(s) == files[IF s = "train" THEN "Label_train" ELSE "Label_test"].arr
SourceW(s) == files[IF s = "train" THEN "Class_Weight_train" ELSE "Class_Weight_test"].arr

\* C4: an ImdbData built from a rank-3 image array (N, H, W) holds the rank-4
\* array (N, 1, H, W) and get(i) returns an image of shape (1, H, W); built from
\* a rank-4 array it holds that array unchanged and get(i) returns (C, H, W);
\* get(i) returns the i-th image, label and weight.
C4_ImdbRankFour ==
    /\ Len(imdb) = 1 =>
          \A s \in {"train", "test"} :
              LET X == SourceX(s)
                  d == imdb[1][s]
              IN /\ Len(d.X.shape) = 4
                 /\ d.y = SourceY(s)
                 /\ d.w = SourceW(s)
                 /\ IF Len(X.shape) = 3
                    THEN /\ d.X.shape = <<X.shape[1], 1, X.shape[2], X.shape[3]>>
                         /\ \A i \in 1..X.shape[1] : d.X.val[i] = <<X.val[i]>>
                    ELSE d.X = X
    /\ (Len(got) = 1 /\ got[1].index >= 0 /\ Len(got[1].item) = 1) =>
          LET X  == SourceX(got[1].split)
              i  == got[1].index + 1
              it == got[1].item[1]
          IN /\ it.img.shape = IF Len(X.shape) = 3 THEN <<1>> \o Tail(X.shape)
                               ELSE Tail(X.shape)
             /\ it.img.val = IF Len(X.shape) = 3 THEN <<X.val[i]>> ELSE X.val[i]
             /\ it.label.val = SourceY(got[1].split).val[i]
             /\ it.label.shape = Tail(SourceY(got[1].split).shape)
             /\ it.weight.val = SourceW(got[1].split).val[i]
             /\ it.weight.shape = Tail(SourceW(got[1].split).shape)

\* get(1) on a train set built from a rank-3 array of two images
C4_Witness ==
    /\ Len(got) = 1
    /\ got[1].split = "train" /\ got[1].index = 1
    /\ Len(got[1].item) = 1
    /\ SourceX("train").shape = <<2, 1, 2>>
    /\ got[1].item[1].img.shape = <<1, 1, 2>>

\* C7 as stated, for get_data: when get_data has returned or failed, every
\* HDF5 handle it opened is closed.
C7_HandlesClosedOnExit ==
    dpc \in {"returned", "failed"} => \A f \in FileSet : dhandles[f] # "open"

RECURSIVE MatSum(_)
MatSum(ms) == IF ms = <<>> THEN ZeroMatrix ELSE MatAdd(MatSum(Tail(ms)), Head(ms))

MatScale(n, M) == [r \in 1..NumClass |-> [c \in 1..NumClass |-> n * M[r][c]]]

\* C9: starting from zero, the confusion accumulator of a phase holds the sum
\* of the batch matrices added for that phase, N * M after N batches of M; that
\* sum is what cm_per_epoch reads, and cm_per_epoch leaves the accumulator zero.
C9_AccumulatorSumsAndResets ==
    /\ \A p \in Phases :
          /\ cm[p] = MatSum(since[p])
          /\ \A M \in BatchMatrices :
                (\A m \in 1..Len(since[p]) : since[p][m] = M)
                   => cm[p] = MatScale(Len(since[p]), M)
    /\ last.op = "cm_per_epoch" =>
          /\ plotted.sum = MatSum(last.since_before[last.phase])
          /\ cm[last.phase] = ZeroMatrix

\* two train batches of the same matrix were flushed
C9_Witness ==
    /\ last.op = "cm_per_epoch" /\ last.phase = "train"
    /\ Len(last.since_before["train"]) = 2
    /\ last.since_before["train"][1] = last.since_before["train"][2]
    /\ plotted.sum = MatScale(2, last.since_before["train"][1])
    /\ cm["train"] = ZeroMatrix

\* C10: cm_per_epoch for one phase resets the accumulators of both phases, so
\* sums of the other phase not yet flushed are discarded, and it leaves the Dice
\* accumulator as it was.
C10_FlushResetsBothPhases ==
    last.op = "cm_per_epoch" =>
        /\ \A p \in Phases : cm[p] = ZeroMatrix
        /\ ds = last.ds_before

\* a train flush while val sums and Dice sums were pending
C10_Witness ==
    /\ last.op = "cm_per_epoch" /\ last.phase = "train"
    /\ last.cm_before["val"] # ZeroMatrix
    /\ cm["val"] = ZeroMatrix
    /\ ds # ZeroVector

====
